---- MODULE Spec2Model ----
(***************************************************************************)
(* Model of file_copy_tool.py: ConfigManager.validate_config,              *)
(* DirectoryMatcher (build_file_index, match_files), IncrementalCopier     *)
(* (copy_files, save_logs), the two controllers' _execute_copy and the     *)
(* flow of test_script.py (copy_files run twice on one match list).        *)
(*                                                                         *)
(* A file name is a sequence of one-character strings, so that             *)
(* str.endswith and os.path.splitext are computed, not assumed.            *)
(* A directory is an identifier; os.path.join(dir, name) is <<dir, name>>. *)
(***************************************************************************)
EXTENDS Integers, Sequences, FiniteSets, TLC

\* ---------------------------------------------------------------- bounds
MaxRuns == 2
MaxTreeFiles == 2
MaxSrcEntries == 2

\* ------------------------------------------------------------ file names
Ndp == <<"d", ".", "p">>
Ndt == <<"d", ".", "t">>
Nd == <<"d">>
Nep == <<"e", ".", "p">>
Net == <<"e", ".", "t">>
Nhid == <<".", "t">>
Ndep == <<"d", ".", "e", ".", "p">>
Ndet == <<"d", ".", "e", ".", "t">>
Ndtt == <<"d", "t">>
Nfp == <<"f", ".", "p">>
Nft == <<"f", ".", "t">>
Na == <<"a">>
Nb == <<"b">>
Nc == <<"c">>

ExtT == <<".", "t">>
ExtBare == <<"t">>
ExtP == <<".", "p">>
ExtEmpty == <<>>

\* ------------------------------------------------------- string functions
\* str.rfind(ch), 1-based; 0 when ch does not occur
RECURSIVE rfind(_, _, _)
rfind(s, ch, k) ==
    IF k = 0 THEN 0
    ELSE IF s[k] = ch THEN k
    ELSE rfind(s, ch, k - 1)

\* genericpath._splitext: the loop over the characters before the last dot,
\* which looks for one that is not a dot
RECURSIVE splitextLoop(_, _, _)
splitextLoop(p, filenameIndex, dotIndex) ==
    IF filenameIndex < dotIndex
    THEN IF p[filenameIndex] # "."
         THEN <<SubSeq(p, 1, dotIndex - 1), SubSeq(p, dotIndex, Len(p))>>
         ELSE splitextLoop(p, filenameIndex + 1, dotIndex)
    ELSE <<p, <<>>>>

\* os.path.splitext on a bare file name (no separator in it)
splitext(p) ==
    LET dotIndex == rfind(p, ".", Len(p))
    IN IF dotIndex > 0 THEN splitextLoop(p, 1, dotIndex) ELSE <<p, <<>>>>

\* str.endswith
endswith(s, suffix) ==
    /\ Len(suffix) <= Len(s)
    /\ SubSeq(s, Len(s) - Len(suffix) + 1, Len(s)) = suffix

\* ------------------------------------------------------------ filesystem
DirIds == {"T", "A", "B", "C", "S", "D"}

FileEntry(n, c) == [name |-> n, kind |-> "file", ref |-> c, sub |-> "-"]
DirEntry(n, d) == [name |-> n, kind |-> "dir", ref |-> 0, sub |-> d]

\* content a copy leaves behind when it fails part-way
Truncated == 0

\* index of the entry called n in a listing, 0 when there is none
RECURSIVE find(_, _, _)
find(listing, n, k) ==
    IF k = 0 THEN 0
    ELSE IF listing[k].name = n THEN k
    ELSE find(listing, n, k - 1)

\* os.path.exists(os.path.join(d, n))
exists(fsys, path) == find(fsys[path[1]], path[2], Len(fsys[path[1]])) # 0

lookup(fsys, path) == fsys[path[1]][find(fsys[path[1]], path[2], Len(fsys[path[1]]))]

isfileEntry(e) == e.kind = "file"
isdirEntry(e) == e.kind = "dir"

RECURSIVE names(_)
names(listing) ==
    IF listing = <<>> THEN <<>>
    ELSE <<Head(listing).name>> \o names(Tail(listing))


\* a new entry put anywhere in a directory's listing (the listing order of a
\* directory is the platform's)
insertAt(listing, pos, e) ==
    SubSeq(listing, 1, pos - 1) \o <<e>> \o SubSeq(listing, pos, Len(listing))

\* the directories that exist: the two roots and every linked sub-directory
dirExists(fsys, p) ==
    \/ p \in {"T", "S"}
    \/ \E d \in DirIds : \E k \in 1..Len(fsys[d]) :
          isdirEntry(fsys[d][k]) /\ fsys[d][k].sub = p

\* os.path.isdir
isdir(fsys, p) == p \in DirIds /\ dirExists(fsys, p)

RECURSIVE selectKind(_, _)
selectKind(listing, kind) ==
    IF listing = <<>> THEN <<>>
    ELSE IF Head(listing).kind = kind
         THEN <<Head(listing)>> \o selectKind(Tail(listing), kind)
         ELSE selectKind(Tail(listing), kind)

\* os.walk(top), top-down, onerror=None: a directory whose scandir fails is
\* left out without an error; otherwise (root, dirs, files) is yielded and
\* then each sub-directory is walked in listing order
RECURSIVE walk(_, _, _)
RECURSIVE walkDirs(_, _, _)
walk(fsys, rd, top) ==
    IF ~(isdir(fsys, top) /\ rd[top]) THEN <<>>
    ELSE LET dirs == selectKind(fsys[top], "dir")
             files == selectKind(fsys[top], "file")
         IN <<[root |-> top, dirs |-> names(dirs), files |-> names(files)]>>
                \o walkDirs(fsys, rd, dirs)

walkDirs(fsys, rd, dirs) ==
    IF dirs = <<>> THEN <<>>
    ELSE walk(fsys, rd, Head(dirs).sub) \o walkDirs(fsys, rd, Tail(dirs))

\* ------------------------------------------------------ DirectoryMatcher
EmptyIndex == [b \in {} |-> "T"]

\* self.file_index[file_name_without_ext] = root
setItem(index, key, value) ==
    [x \in DOMAIN index \cup {key} |-> IF x = key THEN value ELSE index[x]]

\* for file in files: ...
RECURSIVE indexFiles(_, _, _)
indexFiles(index, root, files) ==
    IF files = <<>> THEN index
    ELSE indexFiles(setItem(index, splitext(Head(files))[1], root), root, Tail(files))

\* for root, dirs, files in os.walk(self.target_dir): ...
RECURSIVE indexWalk(_, _)
indexWalk(index, triples) ==
    IF triples = <<>> THEN index
    ELSE indexWalk(indexFiles(index, Head(triples).root, Head(triples).files),
                   Tail(triples))

build_file_index(fsys, rd, target_dir) ==
    indexWalk(EmptyIndex, walk(fsys, rd, target_dir))

\* os.listdir(source_dir) succeeds
canList(fsys, rd, source_dir) == isdir(fsys, source_dir) /\ rd[source_dir]

\* mutant of matchOne: the file's own extension is compared with the
\* configured one, instead of the name's ending
matchOne_extcmp(index, source_dir, file_extension, file) ==
    IF splitext(file)[2] = file_extension
    THEN LET file_name_without_ext == splitext(file)[1]
         IN IF file_name_without_ext \in DOMAIN index
            THEN << << <<source_dir, file>>, <<index[file_name_without_ext], file>> >> >>
            ELSE <<>>
    ELSE <<>>

\* one turn of the loop of match_files: the pairs this entry adds
matchOne(index, source_dir, file_extension, file) ==
    IF endswith(file, file_extension)
    THEN LET file_name_without_ext == splitext(file)[1]
         IN IF file_name_without_ext \in DOMAIN index
            THEN << << <<source_dir, file>>, <<index[file_name_without_ext], file>> >> >>
            ELSE <<>>
    ELSE <<>>

RECURSIVE matchLoop(_, _, _, _)
matchLoop(index, source_dir, file_extension, listing) ==
    IF listing = <<>> THEN <<>>
    ELSE matchOne(index, source_dir, file_extension, Head(listing))
            \o matchLoop(index, source_dir, file_extension, Tail(listing))

match_files(fsys, index, source_dir, file_extension) ==
    matchLoop(index, source_dir, file_extension, names(fsys[source_dir]))

\* mutant of validate_config: the extension is not checked
validate_config_noext(fsys, cfg) ==
    IF cfg.source_dir = "" \/ ~isdir(fsys, cfg.source_dir)
    THEN <<FALSE, "source_dir invalid">>
    ELSE IF cfg.target_dir = "" \/ ~isdir(fsys, cfg.target_dir)
    THEN <<FALSE, "target_dir invalid">>
    ELSE <<TRUE, "valid">>

\* --------------------------------------------------------- ConfigManager
validate_config(fsys, cfg) ==
    IF cfg.source_dir = "" \/ ~isdir(fsys, cfg.source_dir)
    THEN <<FALSE, "source_dir invalid">>
    ELSE IF cfg.target_dir = "" \/ ~isdir(fsys, cfg.target_dir)
    THEN <<FALSE, "target_dir invalid">>
    ELSE IF cfg.file_extension = <<>>
    THEN <<FALSE, "file_extension empty">>
    ELSE <<TRUE, "valid">>


\* ------------------------------------------------------------------ state
VARIABLES
    fs,             \* directory id -> listing (sequence of entries)
    readable,       \* directory id -> whether the directory can be enumerated
    controller,     \* "cli" (MainController), "gui" (GUIController), "script" (test_script.py)
    config,         \* source_dir, target_dir, file_extension
    pc,             \* position inside _execute_copy / test_file_copy
    runs,           \* number of runs started
    file_index,     \* DirectoryMatcher.file_index
    match_results,  \* the list match_files returned
    i,              \* position of copy_files in match_results
    pass,           \* which copy_files call of the run (the script makes two)
    logs,           \* IncrementalCopier.logs
    copied_count,
    skipped_count,
    log_file,       \* copy_log.txt, a sequence of lines
    result,         \* how the last run ended
    calls,          \* number of os.walk, os.listdir, shutil.copy2 calls so far
    stats,          \* runs that passed validation and both stages; those that matched
    fs_run0,        \* history: fs when the run started
    fs_copy0,       \* history: fs when the current copy_files call started
    exam,           \* history: per pair, what os.path.exists and copy2 did
    first           \* history: the result of the script's first copy_files call

vars == <<fs, readable, controller, config, pc, runs, file_index, match_results,
          i, pass, logs, copied_count, skipped_count, log_file, result, calls,
          stats, fs_run0, fs_copy0, exam, first>>

\* ------------------------------------------------------- initial states
\* sequences without repetition of at most n elements of S
SeqsNoRep(S, n) ==
    {s \in UNION {[1..k -> S] : k \in 0..n} :
        \A a, b \in 1..Len(s) : a # b => s[a] # s[b]}

\* initial content of the files of a directory (distinct per directory)
contentOf(d) ==
    CASE d = "T" -> 1 [] d = "A" -> 2 [] d = "B" -> 3 [] d = "C" -> 4
      [] d = "S" -> 5 [] OTHER -> 6

RECURSIVE filesIn(_, _)
filesIn(d, ns) ==
    IF ns = <<>> THEN <<>>
    ELSE <<FileEntry(Head(ns), contentOf(d))>> \o filesIn(d, Tail(ns))

TreeNames == {Ndp, Ndt, Nd, Nep}

AllReadable == [d \in DirIds |-> TRUE]

\* every directory can be enumerated, or one sub-directory of T cannot
Readabilities ==
    {AllReadable} \cup {[AllReadable EXCEPT ![d] = FALSE] : d \in {"A", "B", "C"}}

ConfigPaths == {"", "N", "F"}

StdConfig == [source_dir |-> "S", target_dir |-> "T", file_extension |-> ExtT]

\* target trees: files of any names anywhere in T, T/a, T/b, T/a/c
InitTrees ==
    \E fT, fA, fB, fC \in SeqsNoRep(TreeNames, MaxTreeFiles) :
    \E order \in {<<"A", "B">>, <<"B", "A">>} :
    \E rd \in Readabilities :
        /\ Len(fT) + Len(fA) + Len(fB) + Len(fC) <= MaxTreeFiles
        /\ fs = [d \in DirIds |->
                   CASE d = "T" -> filesIn("T", fT)
                                     \o <<DirEntry(IF order[1] = "A" THEN Na ELSE Nb, order[1]),
                                          DirEntry(IF order[2] = "A" THEN Na ELSE Nb, order[2])>>
                     [] d = "A" -> filesIn("A", fA) \o <<DirEntry(Nc, "C")>>
                     [] d = "B" -> filesIn("B", fB)
                     [] d = "C" -> filesIn("C", fC)
                     [] d = "S" -> filesIn("S", <<Ndt>>)
                     [] OTHER -> <<>>]
        /\ readable = rd
        /\ controller = "cli"
        /\ config = StdConfig

\* source listings: files and a sub-directory, in any order, any extension
SrcCandidates ==
    {FileEntry(n, contentOf("S")) : n \in {Ndt, Net, Ndp, Nhid, Ndet, Ndtt}}
        \cup {DirEntry(Nft, "D")}

InitListings ==
    \E listing \in SeqsNoRep(SrcCandidates, MaxSrcEntries) :
    \E ext \in {ExtT, ExtBare, ExtP} :
        /\ fs = [d \in DirIds |->
                   CASE d = "T" -> filesIn("T", <<Ndp>>) \o <<DirEntry(Na, "A"), DirEntry(Nb, "B")>>
                     [] d = "A" -> filesIn("A", <<Ndep, Nhid>>) \o <<DirEntry(Nc, "C")>>
                     [] d = "B" -> filesIn("B", <<Nfp, Ndtt>>)
                     [] d = "C" -> filesIn("C", <<Ndt>>)
                     [] d = "S" -> listing
                     [] OTHER -> <<>>]
        /\ readable = AllReadable
        /\ controller = "gui"
        /\ config = [source_dir |-> "S", target_dir |-> "T", file_extension |-> ext]

\* configurations: every kind of path and extension, under every driver
InitConfigs ==
    \E src \in ConfigPaths \cup {"S", "T", "A"} :
    \E tgt \in ConfigPaths \cup {"T", "A"} :
    \E ext \in {ExtEmpty, ExtT} :
    \E ctl \in {"cli", "gui", "script"} :
    \E rd \in {AllReadable, [AllReadable EXCEPT !["S"] = FALSE],
               [AllReadable EXCEPT !["T"] = FALSE]} :
        /\ (ctl = "script" => ext = ExtT)
        /\ fs = [d \in DirIds |->
                   CASE d = "T" -> filesIn("T", <<Ndp>>) \o <<DirEntry(Na, "A"), DirEntry(Nb, "B")>>
                     [] d = "A" -> filesIn("A", <<Ndt, Net>>) \o <<DirEntry(Nc, "C")>>
                     [] d = "B" -> filesIn("B", <<Nep>>)
                     [] d = "C" -> <<>>
                     [] d = "S" -> filesIn("S", <<Ndt, Net>>)
                     [] OTHER -> <<>>]
        /\ readable = rd
        /\ controller = ctl
        /\ config = [source_dir |-> src, target_dir |-> tgt, file_extension |-> ext]

NoFirst == [copied |-> 0, skipped |-> 0, failed |-> 0, done |-> FALSE]

Init ==
    /\ (InitTrees \/ InitListings \/ InitConfigs)
    /\ pc = "idle"
    /\ runs = 0
    /\ file_index = EmptyIndex
    /\ match_results = <<>>
    /\ i = 0
    /\ pass = 1
    /\ logs = <<>>
    /\ copied_count = 0
    /\ skipped_count = 0
    /\ log_file = <<>>
    /\ result = "none"
    /\ calls = [walk |-> 0, listdir |-> 0, copy2 |-> 0]
    /\ stats = [completed |-> 0, matched |-> 0]
    /\ fs_run0 = fs
    /\ fs_copy0 = fs
    /\ exam = <<>>
    /\ first = NoFirst


\* ------------------------------------------------------ IncrementalCopier
\* a line of text: a log entry of copy_files, or a header line of save_logs
Line(kind, name, dir, error, t) ==
    [kind |-> kind, name |-> name, dir |-> dir, error |-> error, t |-> t]

\* the file at path written with content c: replaced in place when the path
\* exists, created somewhere in the directory's listing when it does not
written(fsys, path, c) ==
    LET d == path[1]
        k == find(fsys[d], path[2], Len(fsys[d]))
    IN IF k # 0
       THEN {[fsys EXCEPT ![d][k] = FileEntry(path[2], c)]}
       ELSE {[fsys EXCEPT ![d] = insertAt(@, pos, FileEntry(path[2], c))] :
                pos \in 1..(Len(fsys[d]) + 1)}

\* the listing without the entry called n
RECURSIVE without(_, _)
without(listing, n) ==
    IF listing = <<>> THEN <<>>
    ELSE IF Head(listing).name = n THEN without(Tail(listing), n)
         ELSE <<Head(listing)>> \o without(Tail(listing), n)

\* mutant of copy2: the target is created but nothing is written to it
copy2_contentless(fsys, src, dst) ==
    IF isdirEntry(lookup(fsys, src))
    THEN {[raised |-> TRUE, error |-> "IsADirectoryError", fs |-> fsys]}
    ELSE {[raised |-> FALSE, error |-> "-", fs |-> f] : f \in written(fsys, dst, Truncated)}
            \cup {[raised |-> TRUE, error |-> "OSError", fs |-> fsys]}

\* mutant of copy2: the source is moved to the target, not copied
copy2_move(fsys, src, dst) ==
    IF isdirEntry(lookup(fsys, src))
    THEN {[raised |-> TRUE, error |-> "IsADirectoryError", fs |-> fsys]}
    ELSE LET c == lookup(fsys, src).ref
         IN {[raised |-> FALSE, error |-> "-",
              fs |-> [f EXCEPT ![src[1]] = without(@, src[2])]] : f \in written(fsys, dst, c)}
            \cup {[raised |-> TRUE, error |-> "OSError", fs |-> fsys]}

\* shutil.copy2(source_path, target_path): what it may do. It raises and
\* leaves nothing when the source is a directory or cannot be opened or the
\* target cannot be created; it may raise after the target was created
\* (a write that fails part-way, metadata that cannot be set); or it succeeds.
copy2(fsys, src, dst) ==
    IF isdirEntry(lookup(fsys, src))
    THEN {[raised |-> TRUE, error |-> "IsADirectoryError", fs |-> fsys]}
    ELSE LET c == lookup(fsys, src).ref
         IN {[raised |-> FALSE, error |-> "-", fs |-> f] : f \in written(fsys, dst, c)}
            \cup {[raised |-> TRUE, error |-> "OSError", fs |-> fsys]}
            \cup {[raised |-> TRUE, error |-> "OSError", fs |-> f] :
                     f \in written(fsys, dst, c) \cup written(fsys, dst, Truncated)}

\* mutant of targetExists: the target is never found, every pair is copied
targetExists_never(fsys, target_path) == FALSE

\* mutant of targetExists: the test is inverted
targetExists_inverted(fsys, target_path) == ~exists(fsys, target_path)

\* the `if os.path.exists(target_path)` of copy_files
targetExists(fsys, target_path) == exists(fsys, target_path)

\* mutant of afterFailure: the first failure ends the loop
afterFailure_abort(pos, pairs) == Len(pairs) + 1

\* where the loop of copy_files goes after a copy raised
afterFailure(pos, pairs) == pos + 1

\* -------------------------------------------------------------- actions
\* _execute_copy of either controller with a configuration validate_config
\* rejects: the message is shown and the handler returns
ExecuteCopyInvalid ==
    /\ pc = "idle"
    /\ runs < MaxRuns
    /\ controller \in {"cli", "gui"}
    /\ ~validate_config(fs, config)[1]
    /\ runs' = runs + 1
    /\ result' = "invalid"
    /\ UNCHANGED <<fs, readable, controller, config, pc, file_index, match_results,
                   i, pass, logs, copied_count, skipped_count, log_file, calls,
                   stats, fs_run0, fs_copy0, exam, first>>

\* DirectoryMatcher(target_dir) and build_file_index(): stage 1 of
\* _execute_copy after a successful validation; the script does not stop on
\* the validation's answer
BuildIndex ==
    /\ pc = "idle"
    /\ runs < MaxRuns
    /\ controller = "script" \/ validate_config(fs, config)[1]
    /\ runs' = runs + 1
    /\ file_index' = build_file_index(fs, readable, config.target_dir)
    /\ calls' = [calls EXCEPT !.walk = @ + 1]
    /\ pc' = "match"
    /\ result' = "running"
    /\ match_results' = <<>>
    /\ i' = 0
    /\ pass' = 1
    /\ logs' = <<>>
    /\ copied_count' = 0
    /\ skipped_count' = 0
    /\ fs_run0' = fs
    /\ fs_copy0' = fs
    /\ exam' = <<>>
    /\ first' = NoFirst
    /\ UNCHANGED <<fs, readable, controller, config, log_file, stats>>

\* match_files: os.listdir raises when the source cannot be listed; the GUI
\* catches it, the CLI and the script are ended by it
MatchFilesError ==
    /\ pc = "match"
    /\ ~canList(fs, readable, config.source_dir)
    /\ calls' = [calls EXCEPT !.listdir = @ + 1]
    /\ pc' = IF controller = "gui" THEN "idle" ELSE "crashed"
    /\ result' = "error"
    /\ UNCHANGED <<fs, readable, controller, config, runs, file_index, match_results,
                   i, pass, logs, copied_count, skipped_count, log_file,
                   stats, fs_run0, fs_copy0, exam, first>>

\* match_files returns; a controller returns at once when nothing matched,
\* otherwise IncrementalCopier() is made and copy_files starts
MatchFiles ==
    /\ pc = "match"
    /\ canList(fs, readable, config.source_dir)
    /\ calls' = [calls EXCEPT !.listdir = @ + 1]
    /\ LET m == match_files(fs, file_index, config.source_dir, config.file_extension)
       IN /\ match_results' = m
          /\ IF m = <<>> /\ controller # "script"
             THEN /\ pc' = "idle"
                  /\ result' = "nomatch"
                  /\ i' = i
             ELSE /\ pc' = "copy"
                  /\ result' = result
                  /\ i' = 1
          /\ stats' = IF controller = "script" THEN stats
                      ELSE [completed |-> stats.completed + 1,
                            matched |-> stats.matched + (IF m = <<>> THEN 0 ELSE 1)]
    /\ UNCHANGED <<fs, readable, controller, config, runs, file_index,
                   pass, logs, copied_count, skipped_count, log_file,
                   fs_run0, fs_copy0, exam, first>>

\* one turn of the loop of copy_files, target present: skip
CopySkip ==
    /\ pc = "copy"
    /\ i <= Len(match_results)
    /\ LET source_path == match_results[i][1]
           target_path == match_results[i][2]
       IN /\ targetExists(fs, target_path)
          /\ logs' = Append(logs, Line("Skipped", source_path[2], target_path[1], "-", 0))
          /\ skipped_count' = skipped_count + 1
          /\ exam' = Append(exam, [existed |-> exists(fs, target_path), raised |-> FALSE])
    /\ i' = i + 1
    /\ UNCHANGED <<fs, readable, controller, config, pc, runs, file_index, match_results,
                   pass, copied_count, log_file, result, calls, stats,
                   fs_run0, fs_copy0, first>>

\* one turn of the loop of copy_files, target absent: copy2 under try/except
CopyFile ==
    /\ pc = "copy"
    /\ i <= Len(match_results)
    /\ LET source_path == match_results[i][1]
           target_path == match_results[i][2]
       IN /\ ~targetExists(fs, target_path)
          /\ \E out \in copy2(fs, source_path, target_path) :
                /\ fs' = out.fs
                /\ IF out.raised
                   THEN /\ logs' = Append(logs, Line("Failed", source_path[2],
                                                     target_path[1], out.error, 0))
                        /\ copied_count' = copied_count
                        /\ i' = afterFailure(i, match_results)
                   ELSE /\ logs' = Append(logs, Line("Copied", source_path[2],
                                                     target_path[1], "-", 0))
                        /\ copied_count' = copied_count + 1
                        /\ i' = i + 1
                /\ exam' = Append(exam, [existed |-> exists(fs, target_path),
                                     raised |-> out.raised])
    /\ calls' = [calls EXCEPT !.copy2 = @ + 1]
    /\ UNCHANGED <<readable, controller, config, pc, runs, file_index, match_results,
                   pass, skipped_count, log_file, result, stats,
                   fs_run0, fs_copy0, first>>

\* the block save_logs appends to copy_log.txt
logBlock(entries, now) ==
    <<Line("sep", <<>>, "-", "-", 0), Line("time", <<>>, "-", "-", now)>> \o entries

\* mutant of save_logs: the file is opened with 'w'
save_logs_truncate(file, entries, now) == logBlock(entries, now)

\* what open(log_file, 'a') and the writes leave in the file
save_logs(file, entries, now) == file \o logBlock(entries, now)

\* copy_files returned to a controller: save_logs, then the summary
SaveLogs ==
    /\ pc = "copy"
    /\ i > Len(match_results)
    /\ controller \in {"cli", "gui"}
    /\ log_file' = save_logs(log_file, logs, runs)
    /\ pc' = "idle"
    /\ result' = "ok"
    /\ UNCHANGED <<fs, readable, controller, config, runs, file_index, match_results,
                   i, pass, logs, copied_count, skipped_count, calls, stats,
                   fs_run0, fs_copy0, exam, first>>

RECURSIVE countKind(_, _)
countKind(entries, kind) ==
    IF entries = <<>> THEN 0
    ELSE (IF Head(entries).kind = kind THEN 1 ELSE 0) + countKind(Tail(entries), kind)

\* the script's second IncrementalCopier and copy_files(match_results)
CopyAgain ==
    /\ pc = "copy"
    /\ i > Len(match_results)
    /\ controller = "script"
    /\ pass = 1
    /\ first' = [copied |-> copied_count, skipped |-> skipped_count,
                 failed |-> countKind(logs, "Failed"), done |-> TRUE]
    /\ pass' = 2
    /\ i' = 1
    /\ logs' = <<>>
    /\ copied_count' = 0
    /\ skipped_count' = 0
    /\ fs_copy0' = fs
    /\ exam' = <<>>
    /\ UNCHANGED <<fs, readable, controller, config, pc, runs, file_index, match_results,
                   log_file, result, calls, stats, fs_run0>>

\* the script's second copy_files returned: the script ends
ScriptDone ==
    /\ pc = "copy"
    /\ i > Len(match_results)
    /\ controller = "script"
    /\ pass = 2
    /\ pc' = "idle"
    /\ result' = "ok"
    /\ UNCHANGED <<fs, readable, controller, config, runs, file_index, match_results,
                   i, pass, logs, copied_count, skipped_count, log_file, calls, stats,
                   fs_run0, fs_copy0, exam, first>>

Next ==
    \/ ExecuteCopyInvalid
    \/ BuildIndex
    \/ MatchFilesError
    \/ MatchFiles
    \/ CopySkip
    \/ CopyFile
    \/ SaveLogs
    \/ CopyAgain
    \/ ScriptDone

Spec == Init /\ [][Next]_vars


\* =================================================================
\* Vocabulary of the properties, stated without the operators above
\* =================================================================

\* a name with its final extension stripped: cut at the last dot that has a
\* character other than a dot somewhere before it; no such dot, no extension
baseName(n) ==
    LET dots == {k \in 1..Len(n) : n[k] = "." /\ \E j \in 1..(k - 1) : n[j] # "."}
    IN IF dots = {} THEN n
       ELSE SubSeq(n, 1, (CHOOSE k \in dots : \A m \in dots : m <= k) - 1)

\* s is some prefix followed by suffix
hasSuffix(s, suffix) == \E m \in 0..Len(s) : s = SubSeq(s, 1, m) \o suffix

\* the entries of the directories dirs, as <<directory, position>>
slots(fsys, dirs) == UNION {{<<d, k>> : k \in 1..Len(fsys[d])} : d \in dirs}

entryAt(fsys, x) == fsys[x[1]][x[2]]

\* the directories of the tree under top, top included
RECURSIVE reach(_, _, _)
reach(fsys, found, n) ==
    IF n = 0 THEN found
    ELSE reach(fsys,
               found \cup {entryAt(fsys, x).sub :
                              x \in {y \in slots(fsys, found) : entryAt(fsys, y).kind = "dir"}},
               n - 1)

treeDirs(fsys, top) ==
    IF top \in DirIds /\ dirExists(fsys, top)
    THEN reach(fsys, {top}, Cardinality(DirIds))
    ELSE {}

\* the listing positions that lead from top down to d
RECURSIVE pathFrom(_, _, _)
pathFrom(fsys, top, d) ==
    IF d = top THEN <<>>
    ELSE LET link == CHOOSE x \in slots(fsys, DirIds) :
                        entryAt(fsys, x).kind = "dir" /\ entryAt(fsys, x).sub = d
         IN pathFrom(fsys, top, link[1]) \o <<link[2]>>

\* top-down order of two directories: an ancestor comes before its
\* descendants, and of two branches the one listed first comes first
visitedBefore(p, q) ==
    \/ Len(p) < Len(q) /\ SubSeq(q, 1, Len(p)) = p
    \/ \E m \in 1..Len(p) :
          /\ m <= Len(q)
          /\ SubSeq(p, 1, m - 1) = SubSeq(q, 1, m - 1)
          /\ p[m] < q[m]

\* the files of the tree whose base name is b, as <<directory, position>>
carriers(fsys, top, b) ==
    {x \in slots(fsys, treeDirs(fsys, top)) :
        entryAt(fsys, x).kind = "file" /\ baseName(entryAt(fsys, x).name) = b}

basesOf(fsys, dirs) ==
    {baseName(entryAt(fsys, x).name) :
        x \in {y \in slots(fsys, dirs) : entryAt(fsys, y).kind = "file"}}

\* the directory of the last file of base name b in the traversal order
lastDir(fsys, top, b) ==
    LET ds == {x[1] : x \in carriers(fsys, top, b)}
    IN CHOOSE d \in ds :
          \A e \in ds : e = d \/ visitedBefore(pathFrom(fsys, top, e), pathFrom(fsys, top, d))

\* the index in file_index was built in the run whose snapshot is fs_run0
IndexBuilt == calls.walk > 0

\* match_files returned in the current run
Matched == pc = "copy" \/ (pc = "idle" /\ result \in {"ok", "nomatch"})

\* copy_files returned in the current run
Returned == (pc = "copy" /\ i > Len(match_results)) \/ (pc = "idle" /\ result = "ok")

numWhere(seq, P(_)) == Cardinality({k \in 1..Len(seq) : P(seq[k])})


\* =================================================================
\* Properties
\* =================================================================

\* C3: after build_file_index, every base name carried by more than one file
\* of the target tree is indexed, and file_index maps it to the directory of
\* the last such file in the traversal order (top-down, a directory's own
\* files before its sub-directories, sub-directories in listing order).
C3_LastWins ==
    IndexBuilt =>
        \A b \in basesOf(fs_run0, treeDirs(fs_run0, config.target_dir)) :
            Cardinality(carriers(fs_run0, config.target_dir, b)) > 1 =>
                /\ b \in DOMAIN file_index
                /\ file_index[b] = lastDir(fs_run0, config.target_dir, b)

\* The same rule on a tree all of whose directories can be enumerated, for
\* every base name of the tree; the index then holds these base names only.
LastWinsOnReadableTree ==
    (IndexBuilt /\ \A d \in treeDirs(fs_run0, config.target_dir) : readable[d]) =>
        /\ DOMAIN file_index = basesOf(fs_run0, treeDirs(fs_run0, config.target_dir))
        /\ \A b \in DOMAIN file_index :
               file_index[b] = lastDir(fs_run0, config.target_dir, b)

\* C6: traversal errors are fail-fast. When a directory of the target tree
\* cannot be enumerated, the run does not go on to matching or copying with
\* the index built so far; when the source directory cannot be listed, the
\* run does not go on to copying.
C6_TraversalFailFast ==
    /\ pc \in {"match", "copy"} =>
          \A d \in treeDirs(fs_run0, config.target_dir) : readable[d]
    /\ pc = "copy" => canList(fs_run0, readable, config.source_dir)

\* the positions of the source listing that match_files keeps
kept(listing, ext, index) ==
    {k \in 1..Len(listing) :
        hasSuffix(listing[k], ext) /\ baseName(listing[k]) \in DOMAIN index}

\* C4: match_files returns the source listing filtered and mapped in order:
\* one pair (source_dir/name, index[base name]/name) for each entry whose
\* name ends with the extension and whose base name is indexed, no other
\* pair, in listing order.
C4_MatchExact ==
    Matched =>
        LET listing == names(fs_run0[config.source_dir])
            K == kept(listing, config.file_extension, file_index)
            nth(j) == CHOOSE k \in K : Cardinality({m \in K : m <= k}) = j
        IN /\ Len(match_results) = Cardinality(K)
           /\ \A j \in 1..Len(match_results) :
                 match_results[j] =
                     << <<config.source_dir, listing[nth(j)]>>,
                        <<file_index[baseName(listing[nth(j)])], listing[nth(j)]>> >>

\* C4 witness: a listing with an entry that matches, one whose extension
\* differs and one whose base name is not indexed, after match_files
C4_Witness ==
    /\ Matched
    /\ Len(match_results) = 1
    /\ Len(fs_run0[config.source_dir]) = 2
    /\ \E k \in 1..2 :
          LET n == fs_run0[config.source_dir][k].name
          IN hasSuffix(n, config.file_extension) /\ baseName(n) \notin DOMAIN file_index


\* the pairs of the current copy_files call examined so far
Examined == 1..Len(exam)

sourceOf(k) == match_results[k][1]
targetOf(k) == match_results[k][2]

\* the script's second copy_files call has returned
SecondRunDone == controller = "script" /\ pass = 2 /\ pc = "copy" /\ i > Len(match_results)

\* C1 as stated: whatever the pair sequence, the second copy_files call on
\* it copies nothing and skips every pair.
C1_Idempotent ==
    SecondRunDone => copied_count = 0 /\ skipped_count = Len(match_results)

\* C1 as amended: when the first copy_files call recorded no Failed entry,
\* the second call on the same pairs copies nothing and skips every pair.
C1_IdempotentAfterSuccess ==
    (SecondRunDone /\ first.failed = 0) =>
        copied_count = 0 /\ skipped_count = Len(match_results)

\* C1 witness: a first call that copied a file and failed on none, and the
\* second call returned
C1_Witness ==
    SecondRunDone /\ first.failed = 0 /\ first.copied > 0 /\ Len(match_results) > 1

\* C2: a pair whose target exists when copy_files examines it keeps the
\* content it had before the call, is logged Skipped, and adds one to
\* skipped_count.
C2_NeverOverwrites ==
    /\ \A k \in Examined :
          exam[k].existed =>
              /\ logs[k].kind = "Skipped"
              /\ exists(fs_copy0, targetOf(k))
              /\ lookup(fs, targetOf(k)) = lookup(fs_copy0, targetOf(k))
    /\ skipped_count = Cardinality({k \in Examined : exam[k].existed})

\* C2 witness: copy_files returned after skipping a pair and copying another
C2_Witness ==
    /\ Returned
    /\ \E k \in Examined : exam[k].existed
    /\ \E k \in Examined : ~exam[k].existed /\ ~exam[k].raised

\* C5: a copy that raises is logged Failed for its pair, adds to neither
\* counter and does not end the loop: there is one log entry per examined
\* pair, in pair order, and when copy_files returns every pair was examined
\* and copied_count + skipped_count + (Failed entries) = len(pairs).
C5_ErrorPerItem ==
    /\ Len(logs) = Len(exam)
    /\ \A k \in Examined :
          /\ logs[k].name = sourceOf(k)[2]
          /\ logs[k].dir = targetOf(k)[1]
          /\ exam[k].raised <=> logs[k].kind = "Failed"
    /\ copied_count + skipped_count = Cardinality({k \in Examined : ~exam[k].raised})
    /\ Returned =>
          /\ Len(logs) = Len(match_results)
          /\ copied_count + skipped_count + countKind(logs, "Failed") = Len(match_results)

\* C5 witness: copy_files returned, a copy raised and a later pair was copied
C5_Witness ==
    /\ Returned
    /\ \E k \in Examined : \E m \in Examined :
          k < m /\ exam[k].raised /\ logs[m].kind = "Copied"

\* the pairs copied without an error
Succeeded == {k \in Examined : ~exam[k].existed /\ ~exam[k].raised}

\* the paths that hold something now and held nothing in snapshot old
createdSince(old) ==
    {<<x[1], entryAt(fs, x).name>> : x \in slots(fs, DirIds)} \
        {<<x[1], entryAt(old, x).name>> : x \in slots(old, DirIds)}

\* what C9 says of each pair copied without an error: its target is a file
\* with the source's content and its log entry is Copied
C9_EachCopyMaterialised ==
    \A k \in Succeeded :
        /\ exists(fs, targetOf(k))
        /\ lookup(fs, targetOf(k)).kind = "file"
        /\ lookup(fs, targetOf(k)).ref = lookup(fs, sourceOf(k)).ref
        /\ logs[k].kind = "Copied"

\* C9 as stated: ... and copied_count is the number of such pairs, which is
\* the number of target files this call created.
C9_CopyMaterialises ==
    Returned =>
        /\ C9_EachCopyMaterialised
        /\ copied_count = Cardinality(Succeeded)
        /\ copied_count = Cardinality(createdSince(fs_copy0))

\* C9 as amended: ... and copied_count is the number of such pairs; each of
\* them is a target file this call created, and the call may have created
\* more (a copy that raised after creating its target is not counted).
C9_CopyMaterialisesCounted ==
    /\ C9_EachCopyMaterialised
    /\ copied_count = Cardinality(Succeeded)
    /\ {targetOf(k) : k \in Succeeded} \subseteq createdSince(fs_copy0)
    /\ copied_count <= Cardinality(createdSince(fs_copy0))

\* C9 witness: copy_files returned having copied a file
C9_Witness ==
    Returned /\ copied_count > 0 /\ Succeeded # {}

\* C10: frame of a run. Nothing changes before copy_files starts; every
\* entry that existed when the run started is still there unchanged; every
\* path added is a file index[base name]/name for a name of the source
\* listing, in a directory of the target tree that held a file of that base
\* name when the index was built.
C10_Frame ==
    /\ (pc = "match" \/ (pass = 1 /\ exam = <<>>)) => fs = fs_run0
    /\ \A x \in slots(fs_run0, DirIds) :
          \E y \in slots(fs, {x[1]}) : entryAt(fs, y) = entryAt(fs_run0, x)
    /\ \A d \in DirIds : Len(fs[d]) >= Len(fs_run0[d])
    /\ \A path \in createdSince(fs_run0) :
          /\ lookup(fs, path).kind = "file"
          /\ \E n \in {entryAt(fs_run0, x).name : x \in slots(fs_run0, {config.source_dir})} :
                /\ path[2] = n
                /\ baseName(n) \in DOMAIN file_index
                /\ path[1] = file_index[baseName(n)]
          /\ path[1] \in treeDirs(fs_run0, config.target_dir)
          /\ \E x \in slots(fs_run0, {path[1]}) :
                /\ entryAt(fs_run0, x).kind = "file"
                /\ baseName(entryAt(fs_run0, x).name) = baseName(path[2])

\* C10 witness: the source directory lies inside the target tree and the run
\* created a file
C10_Witness ==
    /\ config.source_dir \in treeDirs(fs_run0, config.target_dir)
    /\ createdSince(fs_run0) # {}
    /\ Returned

\* a configuration the claim calls invalid: a directory setting that is empty
\* or names no existing directory, or an empty extension
InvalidConfig ==
    \/ config.source_dir \in {"", "N", "F"}
    \/ config.target_dir \in {"", "N", "F"}
    \/ config.file_extension = <<>>

\* C7: a controller's _execute_copy on an invalid configuration ends at the
\* validation: nothing is indexed, listed, copied or logged.
C7_InvalidStops ==
    [][(pc = "idle" /\ controller \in {"cli", "gui"} /\ InvalidConfig /\ runs' # runs) =>
          /\ ~validate_config(fs, config)[1]
          /\ result' = "invalid"
          /\ pc' = "idle"
          /\ calls' = calls
          /\ file_index' = file_index
          /\ match_results' = match_results
          /\ fs' = fs
          /\ log_file' = log_file]_vars

\* C7 witness: a controller run was refused for its configuration
C7_Witness ==
    result = "invalid" /\ runs > 0 /\ InvalidConfig

\* the number of blocks in copy_log.txt
numBlocks == countKind(log_file, "sep")

\* C8 as stated: every controller run with a valid configuration and no
\* traversal error appends exactly one block, also when nothing matched.
C8_OneBlockPerRun ==
    pc = "idle" => numBlocks = stats.completed

\* C8 as amended: every controller run with a valid configuration, no
\* traversal error and at least one match appends exactly one block
\* (separator, timestamp, that run's entries in match order); a run that
\* matches nothing appends nothing; no step truncates or rewrites the file.
C8_OneBlockPerMatchedRun ==
    /\ [](pc = "idle" => numBlocks = stats.matched)
    /\ [][\/ log_file' = log_file
          \/ /\ pc = "copy" /\ pc' = "idle" /\ controller \in {"cli", "gui"}
             /\ Len(log_file') = Len(log_file) + 2 + Len(match_results)
             /\ SubSeq(log_file', 1, Len(log_file)) = log_file
             /\ log_file'[Len(log_file) + 1].kind = "sep"
             /\ log_file'[Len(log_file) + 2].kind = "time"
             /\ \A k \in 1..Len(match_results) :
                   /\ log_file'[Len(log_file) + 2 + k] = logs[k]
                   /\ logs[k].name = sourceOf(k)[2]]_vars

\* C8 witness: two blocks in the file, the second appended after the first
C8_Witness ==
    pc = "idle" /\ numBlocks = 2 /\ stats.matched = 2

====
